---- MODULE Spec2Model ----
\* The definition parsers of house-prices/parse_variables.py and
\* house-prices/qualitative_variables.py: a two-state line scanner over
\* three regular expressions.  A line is a sequence of one-character strings,
\* the regular expressions are matched character by character, and the scanner
\* state is the set of local variables of parse_definitions.
EXTENDS Integers, Sequences, FiniteSets, TLC

VARIABLES f, pc, st, result, qpc, qst, qresult

vars == <<f, pc, st, result, qpc, qst, qresult>>

\* ---------------------------------------------------------------- bounds

\* The number of lines of the input file.
MaxLines == 4

\* ------------------------------------------------------------ characters

Spaces(n) == [i \in 1..n |-> " "]

\* The characters str.strip() and the regular expression's \s remove/skip,
\* among those the input lines use.
Whitespace == {" ", "\t", "\n", "\r"}

Nominal == <<"N", "o", "m", "i", "n", "a", "l">>
Ordinal == <<"O", "r", "d", "i", "n", "a", "l">>
Discrete == <<"D", "i", "s", "c", "r", "e", "t", "e">>
Continuous == <<"C", "o", "n", "t", "i", "n", "u", "o", "u", "s">>

\* The value of a local variable that has not been assigned yet.
Unbound == <<"<unbound>">>

\* ------------------------------------------------------- string functions

\* str.strip(): the string without its leading and trailing whitespace.
RECURSIVE LStrip(_)
LStrip(s) ==
    IF s = <<>> THEN <<>>
    ELSE IF Head(s) \in Whitespace THEN LStrip(Tail(s)) ELSE s

RECURSIVE RStrip(_)
RStrip(s) ==
    IF s = <<>> THEN <<>>
    ELSE IF s[Len(s)] \in Whitespace THEN RStrip(SubSeq(s, 1, Len(s) - 1)) ELSE s

Strip(s) == RStrip(LStrip(s))

\* The index of the first occurrence of character c in s at or after index
\* from, or 0 when there is none.
RECURSIVE Find(_, _, _)
Find(s, c, from) ==
    IF from > Len(s) THEN 0
    ELSE IF s[from] = c THEN from ELSE Find(s, c, from + 1)

\* The first index at or after from that holds no whitespace (Len(s) + 1 when
\* the rest of s is whitespace): where a greedy \s* stops.
RECURSIVE SkipWhitespace(_, _)
SkipWhitespace(s, from) ==
    IF from > Len(s) THEN from
    ELSE IF s[from] \in Whitespace THEN SkipWhitespace(s, from + 1) ELSE from

\* Whether s holds the literal lit at index from.
HasAt(s, lit, from) ==
    /\ from >= 1
    /\ from + Len(lit) - 1 <= Len(s)
    /\ SubSeq(s, from, from + Len(lit) - 1) = lit

NoMatch == [ok |-> FALSE]

\* ---------------------------------------------------- regular expressions

\* re.match of  [^(]+ \( (k1|k2|...) \) \s* :  at the start of the line.
\* [^(]+ is greedy and cannot cross a '(', so the name is the text before the
\* first '(' and must not be empty; the kind is the keyword that follows it.
\* With gap = FALSE the \s* is left out of the pattern.
MatchHeader(line, kinds, gap) ==
    LET p == Find(line, "(", 1)
        ks == {k \in kinds : HasAt(line, k, p + 1)}
    IN  IF p < 2 \/ ks = {} THEN NoMatch
        ELSE LET k == CHOOSE k \in ks : TRUE
                 r == p + 1 + Len(k)
                 c == IF gap THEN SkipWhitespace(line, r + 1) ELSE r + 1
             IN  IF HasAt(line, <<")">>, r) /\ HasAt(line, <<":">>, c)
                 THEN [ok |-> TRUE, name |-> SubSeq(line, 1, p - 1), kind |-> k]
                 ELSE NoMatch

P_QUALITATIVE(line) == MatchHeader(line, {Nominal, Ordinal}, TRUE)

P_QUANTITATIVE(line) == MatchHeader(line, {Discrete, Continuous}, TRUE)

\* P_VALUE with the tab made optional: [ ]{7} [^\t]+ \t?
P_VALUE_TabOptional(line) ==
    LET t == Find(line, "\t", 1)
        e == IF t = 0 THEN Len(line) + 1 ELSE t
    IN  IF HasAt(line, Spaces(7), 1) /\ e > 8
        THEN [ok |-> TRUE, value |-> SubSeq(line, 8, e - 1)]
        ELSE NoMatch

\* P_VALUE with the value allowed to hold tabs: [ ]{7} .+ \t , whose greedy
\* run ends at the last tab of the line.
P_VALUE_LastTab(line) ==
    LET ts == {i \in 9..Len(line) : line[i] = "\t"}
    IN  IF HasAt(line, Spaces(7), 1) /\ ts # {}
        THEN [ok |-> TRUE,
              value |-> SubSeq(line, 8, (CHOOSE i \in ts : \A j \in ts : j <= i) - 1)]
        ELSE NoMatch

\* re.match of  [ ]{7} [^\t]+ \t  at the start of the line: seven spaces, then
\* a non-empty run of characters other than a tab, then a tab.  The run is
\* greedy and cannot cross a tab, so it ends at the first tab of the line.
P_VALUE(line) ==
    LET t == Find(line, "\t", 1)
    IN  IF HasAt(line, Spaces(7), 1) /\ t > 8
        THEN [ok |-> TRUE, value |-> SubSeq(line, 8, t - 1)]
        ELSE NoMatch

\* The pattern qualitative_variables.py names P_QUANTITATIVE: it matches the
\* Nominal and Ordinal headers, with no whitespace allowed before the colon.
QV_P_QUANTITATIVE(line) == MatchHeader(line, {Nominal, Ordinal}, FALSE)

\* ------------------------------------------------------------ input lines

L_Empty == <<"\n">>
L_BlankIndent == Spaces(8) \o <<"\t", "\n">>
L_Nominal == <<"F", " ", "(">> \o Nominal \o <<")", ":", "\n">>
L_OrdinalGap == <<"G", "(">> \o Ordinal \o <<")", " ", ":", " ", "x", "\n">>
L_Discrete == <<"B", " ", "(">> \o Discrete \o <<")", ":", " ", "y", "\n">>
L_Value == Spaces(7) \o <<"A", "\t", "x", "\n">>
L_ValueIndent == Spaces(8) \o <<"B", " ", "\t", "d", "\t", "\n">>
L_ValueHeader == Spaces(7) \o <<"H", " ", "(">> \o Ordinal \o <<")", ":", "\t", "\n">>
L_SixSpaces == Spaces(6) \o <<"A", "\t", "x", "\n">>
L_NoTab == Spaces(7) \o <<"A", "\n">>
L_Text == <<"t", "e", "x", "t", "\n">>
L_EmptyValue == Spaces(7) \o <<"\t", "x", "\n">>
L_NoName == <<"(">> \o Nominal \o <<")", ":", "\n">>
L_Continuous == <<"C", "(">> \o Continuous \o <<")", ":", "\n">>

\* The lines an input file is made of.
Lines ==
    {L_Empty, L_BlankIndent, L_Nominal, L_OrdinalGap, L_Discrete, L_Value,
     L_ValueIndent, L_ValueHeader, L_SixSpaces, L_NoTab, L_Text, L_EmptyValue,
     L_NoName, L_Continuous}

\* ------------------------------------------- parse_variables.py: the scan

\* The dictionaries parse_definitions builds.
QualitativeDefinition(name, kind, values) ==
    [name |-> name, kind |-> kind, values |-> values]

\* The quantitative dictionary built with a 'values' key.
QuantitativeDefinitionWithValues(name, kind) ==
    [name |-> name, kind |-> kind, values |-> <<>>]

QuantitativeDefinition(name, kind) == [name |-> name, kind |-> kind]

\* definitions.insert(0, definition) in place of definitions.append.
EmitFront(s, definition, header, n) ==
    [s EXCEPT !.definitions = <<definition>> \o @,
              !.src = <<[header |-> header, emitted |-> n]>> \o @]

\* definitions.append(definition).  The history field src records, for the
\* definition appended, the number of the line that assigned its name and kind
\* and the number of the line that appended it.
Emit(s, definition, header, n) ==
    [s EXCEPT !.definitions = Append(@, definition),
              !.src = Append(@, [header |-> header, emitted |-> n])]

\* ValuePhase without 'in_definition = False' where the definition ends.
ValuePhaseStaysOpen(s, line, n) ==
    IF s.in_definition
    THEN LET m == P_VALUE(line)
         IN  IF m.ok
             THEN [s EXCEPT !.values = Append(@, Strip(m.value))]
             ELSE [Emit(s, QualitativeDefinition(s.name, s.kind, s.values), s.hdr, n)
                       EXCEPT !.values = <<>>]
    ELSE s

\* ValuePhase without 'values = []' where the definition ends.
ValuePhaseKeepsValues(s, line, n) ==
    IF s.in_definition
    THEN LET m == P_VALUE(line)
         IN  IF m.ok
             THEN [s EXCEPT !.values = Append(@, Strip(m.value))]
             ELSE [Emit(s, QualitativeDefinition(s.name, s.kind, s.values), s.hdr, n)
                       EXCEPT !.in_definition = FALSE]
    ELSE s

\* if in_definition: a value line is appended to values, any other line ends
\* the definition.
ValuePhase(s, line, n) ==
    IF s.in_definition
    THEN LET m == P_VALUE(line)
         IN  IF m.ok
             THEN [s EXCEPT !.values = Append(@, Strip(m.value))]
             ELSE [Emit(s, QualitativeDefinition(s.name, s.kind, s.values), s.hdr, n)
                       EXCEPT !.in_definition = FALSE, !.values = <<>>]
    ELSE s

\* if not in_definition: the line is tried as a qualitative header ...
QualitativeHeader(s, line, n) ==
    LET m == P_QUALITATIVE(line)
    IN  IF m.ok
        THEN [s EXCEPT !.name = Strip(m.name), !.kind = Strip(m.kind),
                       !.in_definition = TRUE, !.hdr = n]
        ELSE s

\* ... and then as a quantitative header.
QuantitativeHeader(s, line, n) ==
    LET m == P_QUANTITATIVE(line)
    IN  IF m.ok
        THEN LET t == [s EXCEPT !.name = Strip(m.name), !.kind = Strip(m.kind),
                                !.hdr = n]
             IN  Emit(t, QuantitativeDefinition(t.name, t.kind), n, n)
        ELSE s

HeaderPhase(s, line, n) ==
    IF ~s.in_definition
    THEN QuantitativeHeader(QualitativeHeader(s, line, n), line, n)
    ELSE s

\* The blank test as len(line) == 1: only the empty line is skipped.
IsBlankNewlineOnly(line) == Len(line) = 1

\* Whether the loop skips the line: len(line.strip()) == 0.
IsBlank(line) == Len(Strip(line)) = 0

\* The loop body with 'elif not in_definition': a line that ends a definition
\* is not looked at again.
IterateElse(s, line, n) ==
    IF IsBlank(line) THEN s
    ELSE IF s.in_definition THEN ValuePhase(s, line, n) ELSE HeaderPhase(s, line, n)

\* One iteration of the loop over the lines of the file; n is the number of
\* the line.
Iterate(s, line, n) ==
    IF IsBlank(line) THEN s
    ELSE HeaderPhase(ValuePhase(s, line, n), line, n)

\* The locals of parse_definitions before the loop.
InitialState ==
    [in_definition |-> FALSE, name |-> Unbound, kind |-> Unbound,
     values |-> <<>>, definitions |-> <<>>, hdr |-> 0, src |-> <<>>]

\* The loop reads the next line of the file.
ReadLine(line) ==
    /\ pc = "scan"
    /\ Len(f) < MaxLines
    /\ f' = Append(f, line)
    /\ st' = Iterate(st, line, Len(f) + 1)
    /\ UNCHANGED <<pc, result>>

\* The return with the open definition flushed at the end of the file.
ReturnedFlushed(s) ==
    IF s.in_definition
    THEN Append(s.definitions, QualitativeDefinition(s.name, s.kind, s.values))
    ELSE s.definitions

\* return definitions
Returned(s) == s.definitions

\* End of file: the loop ends and the function returns.
Return ==
    /\ pc = "scan"
    /\ pc' = "done"
    /\ result' = Returned(st)
    /\ UNCHANGED <<f, st>>

\* --------------------------------------- qualitative_variables.py: the scan

QValuePhase(s, line, n) ==
    IF s.in_definition
    THEN LET m == P_VALUE(line)
         IN  IF m.ok
             THEN [s EXCEPT !.values = Append(@, Strip(m.value))]
             ELSE [Emit(s, QualitativeDefinition(s.name, s.kind, s.values), s.hdr, n)
                       EXCEPT !.in_definition = FALSE, !.values = <<>>]
    ELSE s

QHeaderPhase(s, line, n) ==
    IF ~s.in_definition
    THEN LET m == QV_P_QUANTITATIVE(line)
         IN  IF m.ok
             THEN [s EXCEPT !.name = Strip(m.name), !.kind = Strip(m.kind),
                            !.in_definition = TRUE, !.hdr = n]
             ELSE s
    ELSE s

QIterateElse(s, line, n) ==
    IF IsBlank(line) THEN s
    ELSE IF s.in_definition THEN QValuePhase(s, line, n) ELSE QHeaderPhase(s, line, n)

QIterate(s, line, n) ==
    IF IsBlank(line) THEN s
    ELSE QHeaderPhase(QValuePhase(s, line, n), line, n)

\* qualitative_variables.parse_definitions reads the line the other parser
\* reads: both are run on the same file.
QReadLine(line) ==
    /\ qpc = "scan"
    /\ qst' = QIterate(qst, line, Len(f) + 1)
    /\ UNCHANGED <<qpc, qresult>>

QReturn ==
    /\ qpc = "scan"
    /\ qpc' = "done"
    /\ qresult' = qst.definitions
    /\ UNCHANGED qst

\* ---------------------------------------------------------- specifications

Init ==
    /\ f = <<>>
    /\ pc = "scan"
    /\ st = InitialState
    /\ result = <<>>
    /\ qpc = "scan"
    /\ qst = InitialState
    /\ qresult = <<>>

\* parse_variables.parse_definitions on an arbitrary file.
Next ==
    \/ \E line \in Lines : ReadLine(line) /\ UNCHANGED <<qpc, qst, qresult>>
    \/ Return /\ UNCHANGED <<qpc, qst, qresult>>

Spec == Init /\ [][Next]_vars

\* Both parsers on the same arbitrary file, line by line.
NextBoth ==
    \/ \E line \in Lines : ReadLine(line) /\ QReadLine(line)
    \/ Return /\ QReturn

SpecBoth == Init /\ [][NextBoth]_vars

\* ----------------------------------------------------------------- helpers

\* The program variables of a scanner state, without the history fields.
Program(s) ==
    [in_definition |-> s.in_definition, name |-> s.name, kind |-> s.kind,
     values |-> s.values, definitions |-> s.definitions]

\* The line a step reads, and whether the step reads one.
ReadsLine == Len(f') = Len(f) + 1
TheLine == f'[Len(f')]

NonBlank(line) == \E i \in 1..Len(line) : line[i] \notin Whitespace

\* The number of space characters the line starts with.
LeadingSpaces(line) ==
    IF \A i \in 1..Len(line) : line[i] = " " THEN Len(line)
    ELSE (CHOOSE i \in 1..Len(line) :
              line[i] # " " /\ \A j \in 1..(i - 1) : line[j] = " ") - 1

HasTab(line) == \E i \in 1..Len(line) : line[i] = "\t"

FirstTab(line) ==
    CHOOSE i \in 1..Len(line) : line[i] = "\t" /\ \A j \in 1..(i - 1) : line[j] # "\t"

\* The text between position 7 (counted from 0) and the first tab, trimmed.
TrimmedValue(line) == Strip(SubSeq(line, 8, FirstTab(line) - 1))

QualitativeKinds == {Nominal, Ordinal}
QuantitativeKinds == {Discrete, Continuous}

IsQualitativeDef(d) == d.kind \in QualitativeKinds

\* The open definition as it is emitted.
Pending == [name |-> st.name, kind |-> st.kind, values |-> st.values]

\* The scan of a whole sequence of lines, numbered from n.
RECURSIVE Run(_, _, _)
Run(s, lines, n) ==
    IF lines = <<>> THEN s
    ELSE Run(Iterate(s, Head(lines), n), Tail(lines), n + 1)

\* The non-blank lines of f between lines h and t, both excluded.
Between(h, t) == SelectSeq(SubSeq(f, h + 1, t - 1), NonBlank)

ValuesOf(lines) == [i \in 1..Len(lines) |-> TrimmedValue(lines[i])]

IsValueShaped(line) == LeadingSpaces(line) >= 7 /\ HasTab(line)

\* ------------------------------------------------------------------ claims

\* C1: while a qualitative definition is open, a non-blank line that is no
\* value line makes the scanner emit the open definition with the values
\* accumulated so far and then examines that same line as a header: a
\* qualitative header opens a new definition, a quantitative header appends a
\* second record right after the closed one.
C1_TerminatorIsReexamined ==
    [][(ReadsLine /\ st.in_definition /\ NonBlank(TheLine) /\ ~P_VALUE(TheLine).ok)
       => LET ql == P_QUALITATIVE(TheLine)
              qn == P_QUANTITATIVE(TheLine)
              closed == Append(st.definitions, Pending)
          IN  /\ ql.ok => /\ st'.definitions = closed
                          /\ st'.in_definition
                          /\ st'.name = Strip(ql.name)
                          /\ st'.kind = ql.kind
                          /\ st'.values = <<>>
              /\ qn.ok => /\ st'.definitions =
                                Append(closed, [name |-> Strip(qn.name), kind |-> qn.kind])
                          /\ ~st'.in_definition
              /\ (~ql.ok /\ ~qn.ok) => /\ st'.definitions = closed
                                       /\ ~st'.in_definition]_vars

C1_Witness ==
    /\ f = <<L_Nominal, L_Value, L_Discrete>>
    /\ st.definitions =
           <<[name |-> <<"F">>, kind |-> Nominal, values |-> << <<"A">> >>],
             [name |-> <<"B">>, kind |-> Discrete]>>

\* C2: when the input ends while a qualitative definition is open, the
\* definition is not emitted: what is returned is the list of the definitions
\* emitted while reading, all of them from headers before the open one.
C2_OpenDefinitionDropped ==
    (pc = "done" /\ st.in_definition)
        => /\ result = st.definitions
           /\ Len(result) = Len(st.src)
           /\ \A j \in 1..Len(result) :
                  /\ st.src[j].header < st.hdr
                  /\ st.src[j].emitted <= Len(f)
           /\ P_QUALITATIVE(f[st.hdr]).ok
           /\ \A i \in (st.hdr + 1)..Len(f) : NonBlank(f[i]) => P_VALUE(f[i]).ok

C2_Witness ==
    /\ pc = "done"
    /\ f = <<L_Discrete, L_Nominal, L_Value>>
    /\ st.in_definition
    /\ result = <<[name |-> <<"B">>, kind |-> Discrete]>>

\* C3: while a qualitative definition is open, a non-blank line with fewer
\* than seven leading spaces or with no tab is never appended to the values: it
\* ends the definition, which is emitted with the values accumulated before it.
C3_NonValueLineTerminates ==
    [][(/\ ReadsLine
        /\ st.in_definition
        /\ NonBlank(TheLine)
        /\ (LeadingSpaces(TheLine) < 7 \/ ~HasTab(TheLine)))
       => /\ Len(st'.definitions) > Len(st.definitions)
          /\ SubSeq(st'.definitions, 1, Len(st.definitions) + 1)
                 = Append(st.definitions, Pending)
          /\ st'.values = <<>>]_vars

C3_Witness ==
    /\ f = <<L_Nominal, L_Value, L_NoTab>>
    /\ ~st.in_definition
    /\ st.definitions =
           <<[name |-> <<"F">>, kind |-> Nominal, values |-> << <<"A">> >>]>>

\* A step that accepts the line it reads as a value line.
AcceptsValue ==
    /\ ReadsLine
    /\ st.in_definition
    /\ st'.in_definition
    /\ Len(st'.values) = Len(st.values) + 1

\* C4 as stated: every line accepted as a value line begins with exactly seven
\* spaces and appends the trimmed text between position 7 and the first tab; a
\* line whose run of leading spaces is not exactly seven is not accepted.
C4_ExactlySevenSpaces ==
    [][/\ AcceptsValue => /\ LeadingSpaces(TheLine) = 7
                          /\ st'.values = Append(st.values, TrimmedValue(TheLine))
       /\ (ReadsLine /\ LeadingSpaces(TheLine) # 7) => ~AcceptsValue]_vars

\* C4 as amended: every line accepted as a value line begins with at least
\* seven spaces and appends the trimmed text between position 7 and the first
\* tab; a line with fewer than seven leading spaces is not accepted.
C4_AtLeastSevenSpaces ==
    [][/\ AcceptsValue => /\ LeadingSpaces(TheLine) >= 7
                          /\ HasTab(TheLine)
                          /\ st'.values = Append(st.values, TrimmedValue(TheLine))
                          /\ st'.definitions = st.definitions
       /\ (ReadsLine /\ LeadingSpaces(TheLine) < 7) => ~AcceptsValue]_vars

C4_Witness ==
    /\ f = <<L_Nominal, L_ValueIndent>>
    /\ st.in_definition
    /\ st.values = << <<"B">> >>

\* C5: blank lines have no effect: the scanner state after any input is the
\* state after that input with its blank lines removed, and so is the list
\* returned.
C5_BlankLinesIgnored ==
    LET clean == Run(InitialState, SelectSeq(f, NonBlank), 1)
    IN  /\ Program(st) = Program(clean)
        /\ pc = "done" => result = clean.definitions

C5_Witness ==
    /\ f = <<L_Nominal, L_Value, L_BlankIndent, L_Value>>
    /\ st.in_definition
    /\ st.values = << <<"A">>, <<"A">> >>

\* A step that reads a non-blank line matching neither header pattern nor, in
\* context, the value pattern.
ReadsMalformed ==
    /\ ReadsLine
    /\ NonBlank(TheLine)
    /\ ~P_QUALITATIVE(TheLine).ok
    /\ ~P_QUANTITATIVE(TheLine).ok
    /\ ~(st.in_definition /\ P_VALUE(TheLine).ok)

\* C6 as stated: such a line causes no emission and no change of the parser
\* state, whatever the state.
C6_MalformedLineSkipped ==
    [][ReadsMalformed => Program(st') = Program(st)]_vars

\* C6 as amended: such a line raises no error; read while no definition is
\* open it causes no emission and no change of state; read while a definition
\* is open it ends that definition, which is emitted, and nothing else changes.
C6_MalformedLineSkippedWhenIdle ==
    [][ReadsMalformed =>
          /\ st.in_definition => /\ st.name # Unbound
                                 /\ st.kind # Unbound
                                 /\ Program(st') =
                                        [Program(st) EXCEPT
                                            !.in_definition = FALSE,
                                            !.values = <<>>,
                                            !.definitions = Append(@, Pending)]
          /\ ~st.in_definition => Program(st') = Program(st)]_vars

C6_Witness ==
    /\ f = <<L_Discrete, L_Value, L_Text>>
    /\ ~st.in_definition
    /\ st.definitions = <<[name |-> <<"B">>, kind |-> Discrete]>>

\* C7: a returned definition has a 'values' key exactly when its kind is
\* Nominal or Ordinal; a Discrete or Continuous one has the keys name and kind
\* only; every kind is one of the four keywords.
DefinitionShape(d) ==
    /\ d.kind \in QualitativeKinds \cup QuantitativeKinds
    /\ ("values" \in DOMAIN d) <=> (d.kind \in QualitativeKinds)
    /\ d.kind \in QuantitativeKinds => DOMAIN d = {"name", "kind"}
    /\ d.kind \in QualitativeKinds => DOMAIN d = {"name", "kind", "values"}

C7_ValuesKeyIffQualitative ==
    /\ \A j \in 1..Len(st.definitions) : DefinitionShape(st.definitions[j])
    /\ \A j \in 1..Len(result) : DefinitionShape(result[j])

C7_Witness ==
    /\ pc = "done"
    /\ \E j, k \in 1..Len(result) :
           /\ result[j].kind = Ordinal
           /\ result[k].kind = Continuous

\* The header a line is, if it is one.
HeaderOf(line) ==
    IF P_QUALITATIVE(line).ok THEN P_QUALITATIVE(line) ELSE P_QUANTITATIVE(line)

\* C8: the definitions are in the order of their header lines: of two
\* definitions emitted, the one whose header line comes first in the input
\* comes first in the list.
C8_OrderOfHeaders ==
    /\ Len(st.src) = Len(st.definitions)
    /\ \A j \in 1..Len(st.definitions) :
           LET h == st.src[j].header
           IN  /\ h \in 1..Len(f)
               /\ HeaderOf(f[h]).ok
               /\ st.definitions[j].name = Strip(HeaderOf(f[h]).name)
               /\ st.definitions[j].kind = HeaderOf(f[h]).kind
    /\ \A j, k \in 1..Len(st.definitions) :
           j < k => st.src[j].header < st.src[k].header
    /\ pc = "done" => result = st.definitions

C8_Witness ==
    /\ f = <<L_OrdinalGap, L_Continuous>>
    /\ Len(st.definitions) = 2
    /\ st.definitions[1].kind = Ordinal
    /\ st.definitions[2].kind = Continuous
    /\ st.src[1].emitted = 2

\* C9: the values of an emitted qualitative definition are the trimmed values
\* of the value lines between its header line and its terminator line, in
\* order, duplicates kept; the accumulator holds the values read since the
\* open header, and is empty when no definition is open.
C9_ValuesOfDefinition ==
    /\ \A j \in 1..Len(st.definitions) :
           "values" \in DOMAIN st.definitions[j] =>
               LET lines == Between(st.src[j].header, st.src[j].emitted)
               IN  /\ \A i \in 1..Len(lines) : IsValueShaped(lines[i])
                   /\ st.definitions[j].values = ValuesOf(lines)
    /\ st.in_definition =>
           LET lines == Between(st.hdr, Len(f) + 1)
           IN  /\ \A i \in 1..Len(lines) : IsValueShaped(lines[i])
               /\ st.values = ValuesOf(lines)
    /\ ~st.in_definition => st.values = <<>>

C9_Witness ==
    /\ f = <<L_Nominal, L_Value, L_Value, L_Text>>
    /\ st.definitions =
           <<[name |-> <<"F">>, kind |-> Nominal,
              values |-> << <<"A">>, <<"A">> >>]>>

\* A header line with whitespace between the ')' of the kind and the ':'.
HasGap(line) ==
    /\ MatchHeader(line, QualitativeKinds \cup QuantitativeKinds, TRUE).ok
    /\ ~MatchHeader(line, QualitativeKinds \cup QuantitativeKinds, FALSE).ok

\* C10: on an input none of whose header lines has whitespace before the
\* colon, the qualitative-only scanner is in the same open/closed state as the
\* full scanner after every line, and emits and returns exactly the Nominal
\* and Ordinal definitions of the full scanner, in the same order.
C10_QualitativeSubsequence ==
    (\A i \in 1..Len(f) : ~HasGap(f[i]))
        => /\ qst.in_definition = st.in_definition
           /\ qst.definitions = SelectSeq(st.definitions, IsQualitativeDef)
           /\ qst.values = st.values
           /\ (qpc = "done") <=> (pc = "done")
           /\ qpc = "done" => qresult = SelectSeq(result, IsQualitativeDef)

C10_Witness ==
    /\ qpc = "done"
    /\ f = <<L_Nominal, L_Value, L_Discrete, L_ValueHeader>>
    /\ Len(result) = 2
    /\ qresult = <<[name |-> <<"F">>, kind |-> Nominal, values |-> << <<"A">> >>]>>

====
